---- MODULE Spec2Model ----
(***************************************************************************)
(* Model of scripts/data_annotation/clean_topics.py: the topic normalizer  *)
(* standardize_topic and the batch pass clean_annotated_articles.          *)
(*                                                                         *)
(* A Python str is a sequence of one-character strings, so that `in`,      *)
(* split, strip and lower are computed character by character.  None is    *)
(* the one-element sequence <<"None">>, which is no str because "None" is  *)
(* not a character.                                                        *)
(***************************************************************************)
EXTENDS Integers, Sequences, FiniteSets, TLC

VARIABLES
  label,               \* the Raw Topic Label standardize_topic is called with
  result,              \* what that call did: value returned, return line, lines printed
  again,               \* standardize_topic applied to the value returned
  first_option,        \* standardize_topic applied to the label's first " OR " option
  pc,                  \* position in the script
  input_file,          \* the JSON array stored in input_file
  articles,            \* clean_annotated_articles: the list json.load returned
  idx,                 \* index of the next article the for loop of line 147 takes
  topic_changes,       \* clean_annotated_articles: topic_changes
  output_file,         \* the JSON array stored in output_file, Missing before the write
  stdout,              \* the lines printed so far
  topic_distribution,  \* clean_annotated_articles: topic_distribution
  offset,              \* worldapi.py: offset
  all_articles,        \* worldapi.py: all_articles
  wpc,                 \* position in worldapi.py
  requests,            \* the offsets search_news was called with, in call order
  responses,           \* what each call of search_news answered, in call order
  saved_file,          \* the JSON array stored in zohran_mamdani_us_articles.json
  console              \* the lines worldapi.py printed

cleanVars ==
  <<label, result, again, first_option, pc, input_file, articles, idx,
    topic_changes, output_file, stdout, topic_distribution>>

worldVars ==
  <<offset, all_articles, wpc, requests, responses, saved_file, console>>

vars ==
  <<cleanVars, worldVars>>

-----------------------------------------------------------------------------
(* Bounds of the model *)

MaxParts ==
  2

MaxArticles ==
  3

\* the most articles one page of search results holds
MaxPageLen ==
  2

-----------------------------------------------------------------------------
(* Python values and the str operations the script uses *)

None ==
  <<"None">>

IsStr(x) ==
  x # None

\* bool(x) for x a str or None: None and "" are falsy
Truthy(x) ==
  x # None /\ x # <<>>

UpperCase ==
  <<"A","B","C","D","E","F","G","H","I","J","K","L","M",
    "N","O","P","Q","R","S","T","U","V","W","X","Y","Z">>

LowerCase ==
  <<"a","b","c","d","e","f","g","h","i","j","k","l","m",
    "n","o","p","q","r","s","t","u","v","w","x","y","z">>

\* the characters str.strip() removes
Whitespace ==
  {" ", "\t", "\n"}

\* str.lower()
Lower(s) ==
  [i \in 1..Len(s) |->
     IF \E k \in 1..26 : UpperCase[k] = s[i]
       THEN LowerCase[CHOOSE k \in 1..26 : UpperCase[k] = s[i]]
       ELSE s[i]]

\* the indexes at which sub occurs in s
Occurrences(sub, s) ==
  {i \in 1..(Len(s) - Len(sub) + 1) :
     \A k \in 1..Len(sub) : s[i + k - 1] = sub[k]}

\* sub in s
Contains(sub, s) ==
  Occurrences(sub, s) # {}

SetMin(S) ==
  CHOOSE m \in S : \A n \in S : m <= n

SetMax(S) ==
  CHOOSE m \in S : \A n \in S : m >= n

\* s.split(sep)[0]
SplitFirst(s, sep) ==
  IF Contains(sep, s) THEN SubSeq(s, 1, SetMin(Occurrences(sep, s)) - 1) ELSE s

\* s.strip()
Strip(s) ==
  LET keep == {i \in 1..Len(s) : s[i] \notin Whitespace}
  IN  IF keep = {} THEN <<>> ELSE SubSeq(s, SetMin(keep), SetMax(keep))

-----------------------------------------------------------------------------
(* The tables of clean_topics.py *)

ElectionVictoryResults ==
  <<"E","l","e","c","t","i","o","n"," ","V","i","c","t","o","r","y","/","R","e","s","u","l","t","s">>

TrumpConflicts ==
  <<"T","r","u","m","p"," ","C","o","n","f","l","i","c","t","s">>

IsraelPalestineAntisemitism ==
  <<"I","s","r","a","e","l","/","P","a","l","e","s","t","i","n","e","/","A","n","t","i","s","e","m","i","t","i","s","m">>

PersonalBackgroundFamily ==
  <<"P","e","r","s","o","n","a","l"," ","B","a","c","k","g","r","o","u","n","d","/","F","a","m","i","l","y">>

ControversiesPersonalAttacks ==
  <<"C","o","n","t","r","o","v","e","r","s","i","e","s","/","P","e","r","s","o","n","a","l"," ","A","t","t","a","c","k","s">>

PolicyPositions ==
  <<"P","o","l","i","c","y"," ","P","o","s","i","t","i","o","n","s">>

CampaignEndorsements ==
  <<"C","a","m","p","a","i","g","n","/","E","n","d","o","r","s","e","m","e","n","t","s">>

IndiaHinduRelations ==
  <<"I","n","d","i","a","/","H","i","n","d","u"," ","R","e","l","a","t","i","o","n","s">>

MAIN_TOPICS ==
  { ElectionVictoryResults, TrumpConflicts, IsraelPalestineAntisemitism,
    PersonalBackgroundFamily, ControversiesPersonalAttacks, PolicyPositions,
    CampaignEndorsements, IndiaHinduRelations }

\* the items of the dict literal, <<key, value>>, in source order
TOPIC_MAPPING ==
  << <<<<"E","l","e","c","t","i","o","n"," ","V","i","c","t","o","r","y","/","R","e","s","u","l","t","s">>, ElectionVictoryResults>>,
     <<<<"E","l","e","c","t","i","o","n"," ","r","e","s","u","l","t","s"," ","/"," ","o","f","f","i","c","i","a","l"," ","r","e","p","o","r","t","i","n","g">>, ElectionVictoryResults>>,
     <<<<"E","l","e","c","t","i","o","n"," ","r","e","s","u","l","t","s"," ","/"," ","v","i","c","t","o","r","y"," ","s","p","e","e","c","h">>, ElectionVictoryResults>>,
     <<<<"E","l","e","c","t","i","o","n"," ","r","e","s","u","l","t","s"," ","/"," ","p","o","l","i","c","y"," ","c","o","v","e","r","a","g","e">>, ElectionVictoryResults>>,
     <<<<"E","l","e","c","t","o","r","a","l"," ","c","o","v","e","r","a","g","e"," ","/"," ","h","o","r","s","e"," ","r","a","c","e">>, ElectionVictoryResults>>,
     <<<<"T","r","u","m","p"," ","C","o","n","f","l","i","c","t","s">>, TrumpConflicts>>,
     <<<<"T","r","u","m","p"," ","/"," ","G","O","P"," ","r","e","a","c","t","i","o","n","s">>, TrumpConflicts>>,
     <<<<"I","s","r","a","e","l","/","P","a","l","e","s","t","i","n","e","/","A","n","t","i","s","e","m","i","t","i","s","m">>, IsraelPalestineAntisemitism>>,
     <<<<"P","e","r","s","o","n","a","l"," ","B","a","c","k","g","r","o","u","n","d","/","F","a","m","i","l","y">>, PersonalBackgroundFamily>>,
     <<<<"P","e","r","s","o","n","a","l"," ","b","a","c","k","g","r","o","u","n","d"," ","/"," ","i","d","e","n","t","i","t","y">>, PersonalBackgroundFamily>>,
     <<<<"C","o","n","t","r","o","v","e","r","s","i","e","s","/","P","e","r","s","o","n","a","l"," ","A","t","t","a","c","k","s">>, ControversiesPersonalAttacks>>,
     <<<<"C","r","i","t","i","c","i","s","m"," ","/"," ","s","c","a","n","d","a","l"," ","/"," ","a","c","c","u","s","a","t","i","o","n","s">>, ControversiesPersonalAttacks>>,
     <<<<"P","u","b","l","i","c"," ","b","a","c","k","l","a","s","h"," ","/"," ","m","o","c","k","e","r","y">>, ControversiesPersonalAttacks>>,
     <<<<"P","o","l","i","t","i","c","a","l"," ","a","t","t","a","c","k","s"," ","/"," ","d","e","b","a","t","e"," ","c","o","v","e","r","a","g","e">>, ControversiesPersonalAttacks>>,
     <<<<"P","o","l","i","c","y"," ","P","o","s","i","t","i","o","n","s">>, PolicyPositions>>,
     <<<<"P","o","l","i","c","i","n","g"," ","/"," ","N","Y","P","D"," ","c","o","n","t","r","o","v","e","r","s","y">>, PolicyPositions>>,
     <<<<"C","r","i","m","e"," ","&"," ","p","u","b","l","i","c"," ","s","a","f","e","t","y"," ","n","a","r","r","a","t","i","v","e","s">>, PolicyPositions>>,
     <<<<"C","r","i","m","e"," ","/"," ","e","c","o","n","o","m","i","c"," ","a","n","x","i","e","t","y">>, PolicyPositions>>,
     <<<<"F","e","a","r","m","o","n","g","e","r","i","n","g"," ","/"," ","c","r","i","m","e"," ","/"," ","p","u","b","l","i","c"," ","r","e","a","c","t","i","o","n">>, PolicyPositions>>,
     <<<<"R","i","g","h","t","-","w","i","n","g"," ","f","e","a","r"," ","n","a","r","r","a","t","i","v","e","s">>, PolicyPositions>>,
     <<<<"C","a","m","p","a","i","g","n","/","E","n","d","o","r","s","e","m","e","n","t","s">>, CampaignEndorsements>>,
     <<<<"S","u","p","p","o","r","t"," ","&"," ","v","o","t","e","r"," ","a","p","p","e","a","l">>, CampaignEndorsements>>,
     <<<<"I","n","d","i","a","/","H","i","n","d","u"," ","R","e","l","a","t","i","o","n","s">>, IndiaHinduRelations>> >>

\* the keys of TOPIC_MAPPING
MappingKeys ==
  {TOPIC_MAPPING[i][1] : i \in 1..Len(TOPIC_MAPPING)}

\* mutant of MappingGet: the lookup hands back the key it was given
MappingGetKeepsKey(key) ==
  key

\* TOPIC_MAPPING[key]; a dict literal keeps the last value given for a key
MappingGet(key) ==
  TOPIC_MAPPING[SetMax({i \in 1..Len(TOPIC_MAPPING) : TOPIC_MAPPING[i][1] = key})][2]

ElectionKeywords ==
  {<<"e","l","e","c","t","i","o","n">>, <<"v","i","c","t","o","r","y">>, <<"r","e","s","u","l","t","s">>, <<"w","i","n">>, <<"e","l","e","c","t","o","r","a","l">>}

TrumpKeywords ==
  {<<"t","r","u","m","p">>, <<"g","o","p">>, <<"r","e","p","u","b","l","i","c","a","n">>}

IsraelKeywords ==
  {<<"i","s","r","a","e","l">>, <<"p","a","l","e","s","t","i","n","e">>, <<"a","n","t","i","s","e","m","i","t","i","s","m">>, <<"a","n","t","i","s","e","m","i","t","e">>, <<"j","e","w","i","s","h">>,
   <<"j","i","h","a","d","i","s","t">>, <<"h","a","m","a","s">>, <<"b","d","s">>}

PersonalKeywords ==
  {<<"p","e","r","s","o","n","a","l">>, <<"b","a","c","k","g","r","o","u","n","d">>, <<"f","a","m","i","l","y">>, <<"i","d","e","n","t","i","t","y">>, <<"n","e","t"," ","w","o","r","t","h">>, <<"b","i","o","g","r","a","p","h","y">>}

PolicyKeywords ==
  {<<"p","o","l","i","c","y">>, <<"p","o","l","i","c","i","n","g">>, <<"c","r","i","m","e">>, <<"s","a","f","e","t","y">>, <<"n","y","p","d">>, <<"t","a","x">>,
   <<"b","i","l","l","i","o","n","a","i","r","e">>, <<"e","c","o","n","o","m","i","c">>}

CampaignKeywords ==
  {<<"c","a","m","p","a","i","g","n">>, <<"e","n","d","o","r","s","e","m","e","n","t">>, <<"s","u","p","p","o","r","t">>, <<"v","o","t","e","r">>, <<"a","p","p","e","a","l">>, <<"p","a","c">>}

IndiaKeywords ==
  {<<"i","n","d","i","a">>, <<"h","i","n","d","u">>, <<"m","o","d","i">>, <<"k","a","n","g","a","n","a">>, <<"b","o","l","l","y","w","o","o","d">>}

ControversyKeywords ==
  {<<"c","o","n","t","r","o","v","e","r","s","y">>, <<"a","t","t","a","c","k">>, <<"s","c","a","n","d","a","l">>, <<"c","r","i","t","i","c","i","s","m">>, <<"b","a","c","k","l","a","s","h">>, <<"m","o","c","k","e","r","y">>}

OrSeparator ==
  <<" ","O","R"," ">>

-----------------------------------------------------------------------------
(* standardize_topic (lines 65-128) *)

\* what one call did: the value returned, the line of the return statement
\* that produced it, and the lines the call printed
Returned(value, line, printed) ==
  [raised |-> FALSE, value |-> value, line |-> line, printed |-> printed]

\* the call ended in a TypeError raised at `line`
Raised(line) ==
  [raised |-> TRUE, value |-> None, line |-> line, printed |-> <<>>]

\* line 127: the diagnostic naming the label that could not be categorized
Warning(topic) ==
  [kind |-> "warning", topic |-> topic]

\* mutant of FirstOption: the last " OR " option is taken, not the first
FirstOptionTakesLast(topic) ==
  Strip(SubSeq(topic, SetMax(Occurrences(OrSeparator, topic)) + Len(OrSeparator),
               Len(topic)))

\* line 81: topic.split(" OR ")[0].strip()
FirstOption(topic) ==
  Strip(SplitFirst(topic, OrSeparator))

\* any(keyword in topic_lower for keyword in keywords)
AnyKeyword(keywords, topic_lower) ==
  \E keyword \in keywords : Contains(keyword, topic_lower)

\* mutant of KeywordMatch: the controversy group is tested before the policy group
KeywordMatchControversyFirst(topic) ==
  LET topic_lower == Lower(topic)
  IN  IF AnyKeyword(ElectionKeywords, topic_lower)
        THEN Returned(ElectionVictoryResults, 96, <<>>)
      ELSE IF AnyKeyword(TrumpKeywords, topic_lower)
        THEN Returned(TrumpConflicts, 100, <<>>)
      ELSE IF AnyKeyword(IsraelKeywords, topic_lower)
        THEN Returned(IsraelPalestineAntisemitism, 104, <<>>)
      ELSE IF AnyKeyword(PersonalKeywords, topic_lower)
        THEN Returned(PersonalBackgroundFamily, 108, <<>>)
      ELSE IF AnyKeyword(ControversyKeywords, topic_lower)
        THEN Returned(ControversiesPersonalAttacks, 124, <<>>)
      ELSE IF AnyKeyword(PolicyKeywords, topic_lower)
        THEN Returned(PolicyPositions, 112, <<>>)
      ELSE IF AnyKeyword(CampaignKeywords, topic_lower)
        THEN Returned(CampaignEndorsements, 116, <<>>)
      ELSE IF AnyKeyword(IndiaKeywords, topic_lower)
        THEN Returned(IndiaHinduRelations, 120, <<>>)
      ELSE Returned(ControversiesPersonalAttacks, 128, <<Warning(topic)>>)

\* mutant of KeywordMatch: the fallback returns without printing the warning
KeywordMatchSilent(topic) ==
  LET topic_lower == Lower(topic)
  IN  IF AnyKeyword(ElectionKeywords, topic_lower)
        THEN Returned(ElectionVictoryResults, 96, <<>>)
      ELSE IF AnyKeyword(TrumpKeywords, topic_lower)
        THEN Returned(TrumpConflicts, 100, <<>>)
      ELSE IF AnyKeyword(IsraelKeywords, topic_lower)
        THEN Returned(IsraelPalestineAntisemitism, 104, <<>>)
      ELSE IF AnyKeyword(PersonalKeywords, topic_lower)
        THEN Returned(PersonalBackgroundFamily, 108, <<>>)
      ELSE IF AnyKeyword(PolicyKeywords, topic_lower)
        THEN Returned(PolicyPositions, 112, <<>>)
      ELSE IF AnyKeyword(CampaignKeywords, topic_lower)
        THEN Returned(CampaignEndorsements, 116, <<>>)
      ELSE IF AnyKeyword(IndiaKeywords, topic_lower)
        THEN Returned(IndiaHinduRelations, 120, <<>>)
      ELSE IF AnyKeyword(ControversyKeywords, topic_lower)
        THEN Returned(ControversiesPersonalAttacks, 124, <<>>)
      ELSE Returned(ControversiesPersonalAttacks, 128, <<>>)

\* lines 91-128: the keyword groups in source order, then the default fallback
KeywordMatch(topic) ==
  LET topic_lower == Lower(topic)
  IN  IF AnyKeyword(ElectionKeywords, topic_lower)
        THEN Returned(ElectionVictoryResults, 96, <<>>)
      ELSE IF AnyKeyword(TrumpKeywords, topic_lower)
        THEN Returned(TrumpConflicts, 100, <<>>)
      ELSE IF AnyKeyword(IsraelKeywords, topic_lower)
        THEN Returned(IsraelPalestineAntisemitism, 104, <<>>)
      ELSE IF AnyKeyword(PersonalKeywords, topic_lower)
        THEN Returned(PersonalBackgroundFamily, 108, <<>>)
      ELSE IF AnyKeyword(PolicyKeywords, topic_lower)
        THEN Returned(PolicyPositions, 112, <<>>)
      ELSE IF AnyKeyword(CampaignKeywords, topic_lower)
        THEN Returned(CampaignEndorsements, 116, <<>>)
      ELSE IF AnyKeyword(IndiaKeywords, topic_lower)
        THEN Returned(IndiaHinduRelations, 120, <<>>)
      ELSE IF AnyKeyword(ControversyKeywords, topic_lower)
        THEN Returned(ControversiesPersonalAttacks, 124, <<>>)
      ELSE Returned(ControversiesPersonalAttacks, 128, <<Warning(topic)>>)

\* mutant of standardize_topic: the keyword groups are tried before the exact
\* lookups in MAIN_TOPICS and TOPIC_MAPPING
standardize_topic_keywords_first(topic) ==
  IF ~Truthy(topic) THEN Returned(ControversiesPersonalAttacks, 77, <<>>)
  ELSE IF ~IsStr(topic) THEN Raised(80)
  ELSE LET split == IF Contains(OrSeparator, topic) THEN FirstOption(topic) ELSE topic
           match == KeywordMatch(split)
       IN  IF match.line # 128 THEN match
           ELSE IF split \in MAIN_TOPICS THEN Returned(split, 85, <<>>)
           ELSE IF split \in MappingKeys THEN Returned(MappingGet(split), 89, <<>>)
           ELSE match

\* mutant of standardize_topic: the lookup in MAIN_TOPICS ignores letter case
standardize_topic_any_case(topic) ==
  IF ~Truthy(topic) THEN Returned(ControversiesPersonalAttacks, 77, <<>>)
  ELSE IF ~IsStr(topic) THEN Raised(80)
  ELSE LET split == IF Contains(OrSeparator, topic) THEN FirstOption(topic) ELSE topic
       IN  IF \E t \in MAIN_TOPICS : Lower(t) = Lower(split)
             THEN Returned(CHOOSE t \in MAIN_TOPICS : Lower(t) = Lower(split), 85, <<>>)
           ELSE IF split \in MappingKeys THEN Returned(MappingGet(split), 89, <<>>)
           ELSE KeywordMatch(split)

\* mutant of standardize_topic: the guard of line 76 tests `topic is None`, so
\* the empty string goes on to the rules below it
standardize_topic_none_only(topic) ==
  IF topic = None THEN Returned(ControversiesPersonalAttacks, 77, <<>>)
  ELSE LET split == IF Contains(OrSeparator, topic) THEN FirstOption(topic) ELSE topic
       IN  IF split \in MAIN_TOPICS THEN Returned(split, 85, <<>>)
           ELSE IF split \in MappingKeys THEN Returned(MappingGet(split), 89, <<>>)
           ELSE KeywordMatch(split)

\* lines 75-128.  `" OR " in topic` raises TypeError when topic is not a str;
\* the guard of line 76 lets no None reach it.
standardize_topic(topic) ==
  IF ~Truthy(topic) THEN Returned(ControversiesPersonalAttacks, 77, <<>>)
  ELSE IF ~IsStr(topic) THEN Raised(80)
  ELSE LET split == IF Contains(OrSeparator, topic) THEN FirstOption(topic) ELSE topic
       IN  IF split \in MAIN_TOPICS THEN Returned(split, 85, <<>>)
           ELSE IF split \in MappingKeys THEN Returned(MappingGet(split), 89, <<>>)
           ELSE KeywordMatch(split)

-----------------------------------------------------------------------------
(* The labels standardize_topic is called with *)

AllKeywords ==
  ElectionKeywords \cup TrumpKeywords \cup IsraelKeywords \cup PersonalKeywords
    \cup PolicyKeywords \cup CampaignKeywords \cup IndiaKeywords \cup ControversyKeywords

\* None, "", every name of the tables, every keyword, the examples of the
\* specification, and labels chosen for the rules they meet
BaseLabels ==
  {None, <<>>} \cup MAIN_TOPICS \cup MappingKeys \cup AllKeywords
    \cup {Lower(t) : t \in MAIN_TOPICS}
    \cup { <<"S","o","m","e"," ","n","e","w"," ","e","l","e","c","t","i","o","n"," ","w","i","n"," ","c","o","v","e","r","a","g","e">>,
           <<"C","o","v","e","r","a","g","e"," ","o","f"," ","M","o","d","i"," ","v","i","s","i","t"," ","O","R"," ","B","o","l","l","y","w","o","o","d"," ","r","e","a","c","t","i","o","n">>,
           <<"t","o","t","a","l","l","y"," ","u","n","r","e","l","a","t","e","d"," ","g","i","b","b","e","r","i","s","h">>,
           <<"T","a","x"," ","p","o","l","i","c","y"," ","s","c","a","n","d","a","l">>,
           <<"T","r","u","m","p"," ","t","a","x"," ","s","c","a","n","d","a","l">>,
           <<"a","t","t","a","c","k"," ","O","R"," ","p","o","l","i","c","y">>,
           <<"m","o","d","i"," ","O","R"," ","t","a","x"," ","O","R"," ","w","i","n">>,
           <<"R","i","g","h","t","-","w","i","n","g"," ","f","e","a","r"," ","n","a","r","r","a","t","i","v","e","s"," "," ","O","R"," ","T","r","u","m","p">>,
           <<" ","\t","C","o","n","t","r","o","v","e","r","s","i","e","s","/","P","e","r","s","o","n","a","l"," ","A","t","t","a","c","k","s","\n"," ","O","R"," ","f","a","m","i","l","y">>,
           <<"C","o","n","t","r","o","v","e","r","s","i","e","s","/","P","e","r","s","o","n","a","l"," ","A","t","t","a","c","k","s"," ">>,
           <<"P","o","l","i","c","y"," ","P","o","s","i","t","i","o","n","s"," ","o","r"," ","T","r","u","m","p"," ","C","o","n","f","l","i","c","t","s">>,
           <<"N","Y","P","D"," ","O","V","E","R","T","I","M","E">>,
           <<" "," "," ">> }

\* pieces that labels are put together from
Fragments ==
  { <<" ","O","R"," ">>, <<" ">>, <<"\t">>, <<"O","R">>, <<"x">>, <<"P","o","l","i","c","y"," ","P","o","s","i","t","i","o","n","s">>,
    <<"C","o","n","t","r","o","v","e","r","s","i","e","s","/","P","e","r","s","o","n","a","l"," ","A","t","t","a","c","k","s">>, <<"R","i","g","h","t","-","w","i","n","g"," ","f","e","a","r"," ","n","a","r","r","a","t","i","v","e","s">>,
    <<"T","r","u","m","p">>, <<"t","a","x">>, <<"s","c","a","n","d","a","l">>, <<"m","o","d","i">>, <<"W","I","N">> }

RECURSIVE Composed(_)
\* the concatenations of at most n fragments
Composed(n) ==
  IF n = 0 THEN {<<>>}
  ELSE Composed(n - 1) \cup {p \o f : p \in Composed(n - 1), f \in Fragments}

Labels ==
  BaseLabels \cup Composed(MaxParts)

-----------------------------------------------------------------------------
(* Calls of standardize_topic on one label *)

NoCall ==
  [raised |-> FALSE, value |-> None, line |-> 0, printed |-> <<>>]

\* the content of a file that does not exist: a list no json.dump writes
Missing ==
  <<[missing |-> TRUE]>>

NoDict ==
  [k \in {} |-> 0]

\* the text of a label before its first " OR ", without the whitespace around it
TextBeforeFirstOr(x) ==
  LET at == CHOOSE i \in 1..(Len(x) - 3) :
              /\ SubSeq(x, i, i + 3) = <<" ","O","R"," ">>
              /\ \A j \in 1..(i - 1) : SubSeq(x, j, j + 3) # <<" ","O","R"," ">>
      before == SubSeq(x, 1, at - 1)
      blank(c) == c \in {" ", "\t", "\n"}
  IN  IF \A i \in 1..Len(before) : blank(before[i]) THEN <<>>
      ELSE LET a == CHOOSE i \in 1..Len(before) :
                      ~blank(before[i]) /\ \A j \in 1..(i - 1) : blank(before[j])
               b == CHOOSE i \in 1..Len(before) :
                      ~blank(before[i]) /\ \A j \in (i + 1)..Len(before) : blank(before[j])
           IN  SubSeq(before, a, b)

HasOr(x) ==
  IsStr(x) /\ \E i \in 1..(Len(x) - 3) : SubSeq(x, i, i + 3) = <<" ","O","R"," ">>

\* worldapi.py is not running
WorldIdle ==
  /\ offset = 0
  /\ all_articles = <<>>
  /\ wpc = "idle"
  /\ requests = <<>>
  /\ responses = <<>>
  /\ saved_file = Missing
  /\ console = <<>>

BatchIdle ==
  /\ input_file = <<>>
  /\ articles = <<>>
  /\ idx = 0
  /\ topic_changes = NoDict
  /\ output_file = Missing
  /\ stdout = <<>>
  /\ topic_distribution = NoDict

InitTopic ==
  /\ label \in Labels
  /\ pc = "call"
  /\ result = NoCall
  /\ again = NoCall
  /\ first_option = NoCall
  /\ BatchIdle
  /\ WorldIdle

\* standardize_topic(label)
Call ==
  /\ pc = "call"
  /\ result' = standardize_topic(label)
  /\ pc' = "again"
  /\ UNCHANGED <<label, again, first_option, input_file, articles, idx,
                 topic_changes, output_file, stdout, topic_distribution>>
  /\ UNCHANGED worldVars

\* standardize_topic(standardize_topic(label))
CallAgain ==
  /\ pc = "again"
  /\ ~result.raised
  /\ again' = standardize_topic(result.value)
  /\ pc' = IF HasOr(label) THEN "first" ELSE "end"
  /\ UNCHANGED <<label, result, first_option, input_file, articles, idx,
                 topic_changes, output_file, stdout, topic_distribution>>
  /\ UNCHANGED worldVars

\* standardize_topic of the label's first " OR " option alone
CallFirstOption ==
  /\ pc = "first"
  /\ first_option' = standardize_topic(TextBeforeFirstOr(label))
  /\ pc' = "end"
  /\ UNCHANGED <<label, result, again, input_file, articles, idx,
                 topic_changes, output_file, stdout, topic_distribution>>
  /\ UNCHANGED worldVars

NextTopic ==
  \/ Call
  \/ CallAgain
  \/ CallFirstOption

SpecTopic ==
  InitTopic /\ [][NextTopic]_vars

-----------------------------------------------------------------------------
(* clean_annotated_articles (lines 131-180) *)

\* the characters of the labels in code point order: sorted() compares str
\* values character by character by code point
CodePoints ==
  <<"\t", "\n", " ", "&", "-", "/">> \o UpperCase \o LowerCase

Ord(c) ==
  CHOOSE k \in 1..Len(CodePoints) : CodePoints[k] = c

\* a < b for two str values
StrLess(a, b) ==
  LET n == IF Len(a) < Len(b) THEN Len(a) ELSE Len(b)
      differ == {i \in 1..n : a[i] # b[i]}
  IN  IF differ = {} THEN Len(a) < Len(b)
      ELSE Ord(a[SetMin(differ)]) < Ord(b[SetMin(differ)])

RECURSIVE Sorted(_)
\* sorted(S) for a set of str values
Sorted(S) ==
  IF S = {} THEN <<>>
  ELSE LET least == CHOOSE x \in S : \A y \in S : x = y \/ StrLess(x, y)
       IN  <<least>> \o Sorted(S \ {least})

\* line 168: sorted(topic_changes.items()) compares the keys of the items; `<`
\* between None and a str raises TypeError, and a sort of two or more items
\* compares every item with another one
SortRaises(keys) ==
  None \in keys /\ Cardinality(keys) >= 2

\* line 148: article.get("Topic", "")
GetTopic(article) ==
  IF "Topic" \in DOMAIN article THEN article.Topic ELSE <<>>

\* mutant of SetTopic: the record is rebuilt with its "Topic" field alone
SetTopicDropsFields(article, value) ==
  [k \in {"Topic"} |-> value]

\* mutant of SetTopic: only a "Topic" key the record already has is rewritten
SetTopicIfPresent(article, value) ==
  [k \in DOMAIN article |-> IF k = "Topic" THEN value ELSE article[k]]

\* line 158: article["Topic"] = standardized_topic
SetTopic(article, value) ==
  [k \in DOMAIN article \cup {"Topic"} |-> IF k = "Topic" THEN value ELSE article[k]]

\* mutant of TrackChange: a label seen again starts a new entry
TrackChangeRestarts(changes, original_topic, standardized_topic) ==
  IF original_topic # standardized_topic
    THEN [k \in DOMAIN changes \cup {original_topic} |->
            IF k = original_topic
              THEN [count |-> 1, mapped_to |-> standardized_topic]
              ELSE changes[k]]
    ELSE changes

\* lines 152-155
TrackChange(changes, original_topic, standardized_topic) ==
  IF original_topic # standardized_topic
    THEN [k \in DOMAIN changes \cup {original_topic} |->
            IF k = original_topic
              THEN IF original_topic \notin DOMAIN changes
                     THEN [count |-> 1, mapped_to |-> standardized_topic]
                     ELSE [changes[k] EXCEPT !.count = @ + 1]
              ELSE changes[k]]
    ELSE changes

\* the records an input file is made of: no "Topic" key, null, "", a canonical
\* topic, a synonym, an unmapped label, a label with two options
ArticleChoices ==
  { [Title |-> "no topic"],
    [Title |-> "null", Topic |-> None],
    [Title |-> "empty", Topic |-> <<>>],
    [Title |-> "canonical", Topic |-> PolicyPositions],
    [Title |-> "synonym", Topic |-> <<"T","r","u","m","p"," ","/"," ","G","O","P"," ","r","e","a","c","t","i","o","n","s">>],
    [Title |-> "unmapped", Topic |-> <<"t","o","t","a","l","l","y"," ","u","n","r","e","l","a","t","e","d"," ","g","i","b","b","e","r","i","s","h">>],
    [Title |-> "options", Topic |-> <<"a","t","t","a","c","k"," ","O","R"," ","p","o","l","i","c","y">>] }

InputFiles ==
  UNION {[1..n -> ArticleChoices] : n \in 0..MaxArticles}

Init ==
  /\ input_file \in InputFiles
  /\ pc = "read"
  /\ articles = <<>>
  /\ idx = 0
  /\ topic_changes = NoDict
  /\ output_file = Missing
  /\ stdout = <<>>
  /\ topic_distribution = NoDict
  /\ label = None
  /\ result = NoCall
  /\ again = NoCall
  /\ first_option = NoCall
  /\ WorldIdle

\* lines 140-144: articles = json.load(f); topic_changes = {}
ReadInput ==
  /\ pc = "read"
  /\ articles' = input_file
  /\ topic_changes' = NoDict
  /\ idx' = 1
  /\ pc' = "loop"
  /\ UNCHANGED <<label, result, again, first_option, input_file, output_file,
                 stdout, topic_distribution>>
  /\ UNCHANGED worldVars

\* lines 147-158: one turn of the loop over articles
ProcessArticle ==
  /\ pc = "loop"
  /\ idx <= Len(articles)
  /\ LET article == articles[idx]
         original_topic == GetTopic(article)
         call == standardize_topic(original_topic)
         standardized_topic == call.value
     IN  IF call.raised
           THEN /\ pc' = "raised"
                /\ UNCHANGED <<articles, idx, topic_changes, stdout>>
           ELSE /\ stdout' = stdout \o call.printed
                /\ topic_changes' = TrackChange(topic_changes, original_topic,
                                                standardized_topic)
                /\ articles' = [articles EXCEPT ![idx] = SetTopic(article, standardized_topic)]
                /\ idx' = idx + 1
                /\ pc' = "loop"
  /\ UNCHANGED <<label, result, again, first_option, input_file, output_file,
                 topic_distribution>>
  /\ UNCHANGED worldVars

\* mutant of WriteOutput: the file is written from inside the loop
WriteOutputInLoop ==
  /\ pc = "loop"
  /\ output_file' = articles
  /\ pc' = "statistics"
  /\ UNCHANGED <<label, result, again, first_option, input_file, articles, idx,
                 topic_changes, stdout, topic_distribution>>
  /\ UNCHANGED worldVars

\* lines 161-162: json.dump(articles, f), once the loop has taken every article
WriteOutput ==
  /\ pc = "loop"
  /\ idx > Len(articles)
  /\ output_file' = articles
  /\ pc' = "statistics"
  /\ UNCHANGED <<label, result, again, first_option, input_file, articles, idx,
                 topic_changes, stdout, topic_distribution>>
  /\ UNCHANGED worldVars

\* line 169, for the keys in sorted order
ChangeLines(keys) ==
  [i \in 1..Len(keys) |->
     [kind |-> "change", original |-> keys[i],
      mapped_to |-> topic_changes[keys[i]].mapped_to,
      count |-> topic_changes[keys[i]].count]]

\* lines 165-169: the three heading lines, then one line per item of
\* topic_changes in sorted order; sorted() may raise before any of them
PrintStatistics ==
  /\ pc = "statistics"
  /\ LET heading == << [kind |-> "complete"],
                       [kind |-> "total", count |-> Len(articles)],
                       [kind |-> "changes heading"] >>
     IN  IF SortRaises(DOMAIN topic_changes)
           THEN /\ stdout' = stdout \o heading
                /\ pc' = "raised"
           ELSE /\ stdout' = stdout \o heading
                                \o ChangeLines(Sorted(DOMAIN topic_changes))
                /\ pc' = "count"
  /\ UNCHANGED <<label, result, again, first_option, input_file, articles, idx,
                 topic_changes, output_file, topic_distribution>>
  /\ UNCHANGED worldVars

\* mutant of CountDistribution: the labels of the input are counted, not the
\* topics of the cleaned articles
CountDistributionOfInput ==
  /\ pc = "count"
  /\ topic_distribution' =
       [t \in {GetTopic(input_file[i]) : i \in 1..Len(input_file)} |->
          Cardinality({i \in 1..Len(input_file) : GetTopic(input_file[i]) = t})]
  /\ pc' = "distribution"
  /\ UNCHANGED <<label, result, again, first_option, input_file, articles, idx,
                 topic_changes, output_file, stdout>>
  /\ UNCHANGED worldVars

\* lines 172-175
CountDistribution ==
  /\ pc = "count"
  /\ topic_distribution' =
       [t \in {articles[i].Topic : i \in 1..Len(articles)} |->
          Cardinality({i \in 1..Len(articles) : articles[i].Topic = t})]
  /\ pc' = "distribution"
  /\ UNCHANGED <<label, result, again, first_option, input_file, articles, idx,
                 topic_changes, output_file, stdout>>
  /\ UNCHANGED worldVars

\* line 180, for the topics in sorted order
DistributionLines(topics) ==
  [i \in 1..Len(topics) |->
     [kind |-> "distribution", topic |-> topics[i],
      count |-> IF topics[i] \in DOMAIN topic_distribution
                  THEN topic_distribution[topics[i]] ELSE 0]]

\* lines 177-180
PrintDistribution ==
  /\ pc = "distribution"
  /\ stdout' = stdout \o <<[kind |-> "distribution heading"]>>
                      \o DistributionLines(Sorted(MAIN_TOPICS))
  /\ pc' = "done"
  /\ UNCHANGED <<label, result, again, first_option, input_file, articles, idx,
                 topic_changes, output_file, topic_distribution>>
  /\ UNCHANGED worldVars

Next ==
  \/ ReadInput
  \/ ProcessArticle
  \/ WriteOutput
  \/ PrintStatistics
  \/ CountDistribution
  \/ PrintDistribution

Spec ==
  Init /\ [][Next]_vars

-----------------------------------------------------------------------------
(* worldapi.py: the collection loop (lines 11-36) *)

\* line 14: while offset < 500
OffsetLimit ==
  500

\* line 27: offset += 50
OffsetStep ==
  50

\* an article of the page found at an offset: the offset and its place in the page
Page(at, n) ==
  [j \in 1..n |-> <<at, j>>]

\* line 34: article.to_dict()
ToDict(article) ==
  [offset |-> article[1], position |-> article[2]]

\* mutant of Extend: the new page is put in front of the articles collected
ExtendInFront(list, page) ==
  page \o list

\* line 26: all_articles.extend(articles)
Extend(list, page) ==
  list \o page

InitWorld ==
  /\ offset = 0
  /\ all_articles = <<>>
  /\ wpc = "loop"
  /\ requests = <<>>
  /\ responses = <<>>
  /\ saved_file = Missing
  /\ console = <<>>
  /\ pc = "idle"
  /\ label = None
  /\ result = NoCall
  /\ again = NoCall
  /\ first_option = NoCall
  /\ BatchIdle

\* lines 14-27: search_news answers with a page of articles
SearchFindsPage ==
  /\ wpc = "loop"
  /\ offset < OffsetLimit
  /\ \E n \in 1..MaxPageLen :
       /\ requests' = Append(requests, offset)
       /\ responses' = Append(responses, [kind |-> "news", news |-> Page(offset, n)])
       /\ all_articles' = Extend(all_articles, Page(offset, n))
  /\ offset' = offset + OffsetStep
  /\ wpc' = "loop"
  /\ UNCHANGED <<saved_file, console>>
  /\ UNCHANGED cleanVars

\* lines 14-25: search_news answers with no articles (news is [] or None): break
SearchFindsNothing ==
  /\ wpc = "loop"
  /\ offset < OffsetLimit
  /\ requests' = Append(requests, offset)
  /\ \E none \in {"empty", "None"} :
       responses' = Append(responses, [kind |-> none, news |-> <<>>])
  /\ wpc' = "save"
  /\ UNCHANGED <<offset, all_articles, saved_file, console>>
  /\ UNCHANGED cleanVars

\* lines 14-16, 28-30: search_news raises ApiException: print, break
SearchRaises ==
  /\ wpc = "loop"
  /\ offset < OffsetLimit
  /\ requests' = Append(requests, offset)
  /\ responses' = Append(responses, [kind |-> "ApiException", news |-> <<>>])
  /\ console' = Append(console, [kind |-> "error"])
  /\ wpc' = "save"
  /\ UNCHANGED <<offset, all_articles, saved_file>>
  /\ UNCHANGED cleanVars

\* line 14: the loop condition fails
LoopEnds ==
  /\ wpc = "loop"
  /\ ~(offset < OffsetLimit)
  /\ wpc' = "save"
  /\ UNCHANGED <<offset, all_articles, requests, responses, saved_file, console>>
  /\ UNCHANGED cleanVars

\* lines 33-36: json.dump of the dicts of all_articles, then the closing line
Save ==
  /\ wpc = "save"
  /\ saved_file' = [i \in 1..Len(all_articles) |-> ToDict(all_articles[i])]
  /\ console' = Append(console, [kind |-> "saved", count |-> Len(all_articles)])
  /\ wpc' = "done"
  /\ UNCHANGED <<offset, all_articles, requests, responses>>
  /\ UNCHANGED cleanVars

NextWorld ==
  \/ SearchFindsPage
  \/ SearchFindsNothing
  \/ SearchRaises
  \/ LoopEnds
  \/ Save

\* the script is one thread that runs until it ends
SpecWorld ==
  InitWorld /\ [][NextWorld]_vars /\ WF_vars(NextWorld)

-----------------------------------------------------------------------------
(* Properties *)

\* the label the lookups and the keyword groups see: the first " OR " option
\* of a label that has one, the label itself otherwise
Resolved(x) ==
  IF HasOr(x) THEN TextBeforeFirstOr(x) ELSE x

Called ==
  pc \in {"again", "first", "end"}

\* s is a substring of x
Occurs(s, x) ==
  \E i \in 1..(Len(x) - Len(s) + 1) : SubSeq(x, i, i + Len(s) - 1) = s

\* some keyword of the group is a substring of the lowercased label
Matches(keywords, x) ==
  LET lowered == Lower(x)
  IN  \E k \in keywords : Occurs(k, lowered)

\* the keyword groups in the order Election, Trump, Israel/Palestine, Personal
\* Background, Policy, Campaign, India/Hindu, Controversies
GroupOrder ==
  << <<ElectionKeywords, ElectionVictoryResults>>,
     <<TrumpKeywords, TrumpConflicts>>,
     <<IsraelKeywords, IsraelPalestineAntisemitism>>,
     <<PersonalKeywords, PersonalBackgroundFamily>>,
     <<PolicyKeywords, PolicyPositions>>,
     <<CampaignKeywords, CampaignEndorsements>>,
     <<IndiaKeywords, IndiaHinduRelations>>,
     <<ControversyKeywords, ControversiesPersonalAttacks>> >>

\* C1: for every label that is None or a string, standardize_topic raises
\* nothing and returns one of the 8 topics of MAIN_TOPICS.
C1_Closure ==
  /\ Cardinality(MAIN_TOPICS) = 8
  /\ Called => (~result.raised /\ result.value \in MAIN_TOPICS)

\* a label with an empty first option went through every rule to the fallback
C1_Witness ==
  /\ Called
  /\ HasOr(label)
  /\ Resolved(label) = <<>>
  /\ result.line = 128
  /\ result.value \in MAIN_TOPICS

\* C2: each of the 8 canonical topics is returned unchanged, by the canonical
\* membership rule, and a second application to any returned value changes
\* nothing.
C2_Idempotent ==
  /\ (Called /\ label \in MAIN_TOPICS) => (result.value = label /\ result.line = 85)
  /\ pc \in {"first", "end"} => again.value = result.value

\* a canonical name carrying the keyword of an earlier group is kept
C2_Witness ==
  /\ pc = "end"
  /\ label = ControversiesPersonalAttacks
  /\ Matches(PersonalKeywords, label)
  /\ again.value = label

\* C3: None and "" are answered by the first return statement (line 77) with
\* "Controversies/Personal Attacks", nothing printed, no other rule tried.
C3_EmptyDefault ==
  (Called /\ label \in {None, <<>>}) =>
    result = Returned(ControversiesPersonalAttacks, 77, <<>>)

C3_Witness ==
  /\ Called
  /\ label = <<>>
  /\ result.value = ControversiesPersonalAttacks
  /\ result.line = 77

\* C5: a label containing " OR " gets the topic of the trimmed text before the
\* first " OR "; the specification's example resolves to India/Hindu Relations.
C5_FirstOptionOnly ==
  /\ (pc = "end" /\ HasOr(label)) => result.value = first_option.value
  /\ (Called /\ label = <<"C","o","v","e","r","a","g","e"," ","o","f"," ","M","o","d","i"," ","v","i","s","i","t"," ","O","R"," ","B","o","l","l","y","w","o","o","d"," ","r","e","a","c","t","i","o","n">>)
       => result.value = IndiaHinduRelations

\* the options of the label resolve to different topics and the first one wins
C5_Witness ==
  /\ pc = "end"
  /\ label = <<"m","o","d","i"," ","O","R"," ","t","a","x"," ","O","R"," ","w","i","n">>
  /\ first_option.value = IndiaHinduRelations
  /\ result.value = IndiaHinduRelations

\* C6: every key of TOPIC_MAPPING resolves to its value in the table, by an
\* exact lookup, also where a keyword group would give another topic.
C6_SynonymTable ==
  Called =>
    \A i \in 1..Len(TOPIC_MAPPING) :
      label = TOPIC_MAPPING[i][1] =>
        result.value = TOPIC_MAPPING[i][2] /\ result.line \in {85, 89}

\* the key holds the Election keyword "win" and resolves to Policy Positions
C6_Witness ==
  /\ Called
  /\ label = <<"R","i","g","h","t","-","w","i","n","g"," ","f","e","a","r"," ","n","a","r","r","a","t","i","v","e","s">>
  /\ Occurs(<<"w","i","n">>, Lower(label))
  /\ result.value = PolicyPositions

\* C7: a non-empty label that, after the " OR " split, is neither canonical nor
\* a synonym key and matches some keyword group gets the topic of the first
\* group of GroupOrder with a keyword that is a substring of it in lower case.
C7_FirstGroupWins ==
  LET resolved == Resolved(label)
      matching == {g \in 1..Len(GroupOrder) : Matches(GroupOrder[g][1], resolved)}
  IN  (Called /\ Truthy(label) /\ resolved \notin MAIN_TOPICS \cup MappingKeys) =>
        \A g \in matching :
          (\A e \in 1..(g - 1) : e \notin matching) => result.value = GroupOrder[g][2]

\* a keyword inside a longer word ("WIN" in "xWIN") decides, ahead of a
\* keyword of a later group
C7_Witness ==
  /\ Called
  /\ label = <<"t","a","x","W","I","N">>
  /\ Matches(PolicyKeywords, label)
  /\ result.value = ElectionVictoryResults

\* C8 as stated: every label with a policy keyword and a controversy keyword
\* resolves to Policy Positions.
C8_AsStated ==
  ( /\ Called
    /\ IsStr(label)
    /\ Matches(PolicyKeywords, label)
    /\ Matches(ControversyKeywords, label) )
  => result.value = PolicyPositions

\* C8 amended: a label that, after the " OR " split, has a policy keyword and
\* a controversy keyword and no keyword of the four groups tested before the
\* policy group resolves to Policy Positions.
C8_PolicyBeforeControversy ==
  LET resolved == Resolved(label)
  IN  ( /\ Called
        /\ Truthy(label)
        /\ Matches(PolicyKeywords, resolved)
        /\ Matches(ControversyKeywords, resolved)
        /\ \A e \in 1..4 : ~Matches(GroupOrder[e][1], resolved) )
      => result.value = PolicyPositions

C8_Witness ==
  /\ Called
  /\ label = <<"T","a","x"," ","p","o","l","i","c","y"," ","s","c","a","n","d","a","l">>
  /\ Matches(ControversyKeywords, label)
  /\ result.line = 112
  /\ result.value = PolicyPositions

\* C9: the call prints one warning, naming the label left after the " OR "
\* split, and returns the default topic exactly when the label is non-empty
\* and that label is not canonical, not a synonym key and matches no keyword
\* group; in every other case it prints nothing.
C9_Diagnostic ==
  LET resolved == Resolved(label)
  IN  Called =>
        IF /\ Truthy(label)
           /\ resolved \notin MAIN_TOPICS \cup MappingKeys
           /\ \A g \in 1..Len(GroupOrder) : ~Matches(GroupOrder[g][1], resolved)
          THEN /\ result.printed = <<[kind |-> "warning", topic |-> resolved]>>
               /\ result.value = ControversiesPersonalAttacks
          ELSE result.printed = <<>>

C9_Witness ==
  /\ Called
  /\ label = <<"t","o","t","a","l","l","y"," ","u","n","r","e","l","a","t","e","d"," ","g","i","b","b","e","r","i","s","h">>
  /\ Len(result.printed) = 1
  /\ result.printed[1].topic = label
  /\ result.value = ControversiesPersonalAttacks

\* the loop of line 147 has taken every article
LoopDone ==
  pc \in {"statistics", "count", "distribution", "done", "raised"}

\* C4: once the loop has taken every record, every record has a "Topic" field
\* holding a canonical topic, in memory and in the file written, also the
\* records that came without the key or with null or "".
C4_TopicsCanonical ==
  /\ \A i \in 1..Len(articles) :
       ((pc = "loop" /\ i < idx) \/ LoopDone) =>
         ("Topic" \in DOMAIN articles[i] /\ articles[i].Topic \in MAIN_TOPICS)
  /\ LoopDone =>
       /\ Len(output_file) = Len(input_file)
       /\ \A i \in 1..Len(output_file) :
            "Topic" \in DOMAIN output_file[i] /\ output_file[i].Topic \in MAIN_TOPICS

\* a file with a record without the key, a null and a raw label was cleaned
C4_Witness ==
  /\ LoopDone
  /\ \E i \in 1..Len(input_file) : "Topic" \notin DOMAIN input_file[i]
  /\ \E i \in 1..Len(input_file) : GetTopic(input_file[i]) = None
  /\ \E i \in 1..Len(input_file) : GetTopic(input_file[i]) = <<"a","t","t","a","c","k"," ","O","R"," ","p","o","l","i","c","y">>
  /\ \A i \in 1..Len(output_file) : output_file[i].Topic \in MAIN_TOPICS

\* C10: for every list of records whose "Topic" is a string, null or absent,
\* clean_annotated_articles raises nothing.
C10_NeverRaises ==
  pc # "raised"

\* C11: the file written has as many records as the input, in the same order,
\* and each record has the fields of its input record with the values they
\* had, and the "Topic" field; nothing but "Topic" differs.
C11_OnlyTopicChanges ==
  output_file # Missing =>
    /\ Len(output_file) = Len(input_file)
    /\ \A i \in 1..Len(input_file) :
         /\ DOMAIN output_file[i] = DOMAIN input_file[i] \cup {"Topic"}
         /\ \A k \in DOMAIN input_file[i] \ {"Topic"} :
              output_file[i][k] = input_file[i][k]

\* three different records were written, the first two with a new "Topic"
C11_Witness ==
  /\ output_file # Missing
  /\ Len(input_file) = 3
  /\ input_file[1].Title = "unmapped"
  /\ input_file[2].Title = "no topic"
  /\ input_file[3].Title = "canonical"
  /\ output_file[1].Title = "unmapped"
  /\ output_file[1].Topic # input_file[1].Topic
  /\ output_file[3] = input_file[3]

\* the label the loop read from record i of the input: its "Topic", "" if absent
OriginalLabel(i) ==
  IF "Topic" \in DOMAIN input_file[i] THEN input_file[i].Topic ELSE <<>>

\* the records whose label is not the topic the loop gave them
ChangedRecords ==
  {i \in 1..Len(input_file) : OriginalLabel(i) # articles[i].Topic}

RECURSIVE CountSum(_, _)
\* the sum of the counts of the entries of changes under keys
CountSum(changes, keys) ==
  IF keys = {} THEN 0
  ELSE LET k == CHOOSE k \in keys : TRUE
       IN  changes[k].count + CountSum(changes, keys \ {k})

\* C12: when the loop has ended, topic_changes has an entry for exactly the
\* distinct original labels that differ from their normalized value; an
\* entry's count is the number of records with that label, its mapped_to is
\* standardize_topic of the label; canonical labels have no entry and the
\* counts add up to the number of records whose Topic changed.
C12_ChangesTally ==
  LoopDone =>
    /\ DOMAIN topic_changes = {OriginalLabel(i) : i \in ChangedRecords}
    /\ \A k \in DOMAIN topic_changes :
         /\ topic_changes[k].count =
              Cardinality({i \in 1..Len(input_file) : OriginalLabel(i) = k})
         /\ topic_changes[k].mapped_to = standardize_topic(k).value
         /\ k \notin MAIN_TOPICS
    /\ \A i \in 1..Len(input_file) :
         OriginalLabel(i) \in MAIN_TOPICS => OriginalLabel(i) \notin DOMAIN topic_changes
    /\ CountSum(topic_changes, DOMAIN topic_changes) = Cardinality(ChangedRecords)

\* a label carried by two records, next to a record that was canonical already
C12_Witness ==
  /\ LoopDone
  /\ Len(input_file) = 3
  /\ \E k \in DOMAIN topic_changes : topic_changes[k].count = 2
  /\ \E i \in 1..Len(input_file) : OriginalLabel(i) \in MAIN_TOPICS
  /\ Cardinality(ChangedRecords) = 2

\* the positions of the "distribution" lines in stdout
TallyLines ==
  {n \in 1..Len(stdout) : stdout[n].kind = "distribution"}

RECURSIVE TallySum(_)
\* the sum of the counts printed on the lines at positions
TallySum(positions) ==
  IF positions = {} THEN 0
  ELSE LET n == CHOOSE n \in positions : TRUE
       IN  stdout[n].count + TallySum(positions \ {n})

\* C13: the final tally has one line for each of the 8 canonical topics; the
\* count of a line is the number of records written with that topic, and the
\* 8 counts add up to the number of records processed.
C13_TallyAccountsForAll ==
  pc = "done" =>
    /\ Cardinality(TallyLines) = 8
    /\ {stdout[n].topic : n \in TallyLines} = MAIN_TOPICS
    /\ \A n \in TallyLines :
         stdout[n].count =
           Cardinality({i \in 1..Len(output_file) : output_file[i].Topic = stdout[n].topic})
    /\ TallySum(TallyLines) = Len(input_file)

\* three records tallied under two topics
C13_Witness ==
  /\ pc = "done"
  /\ Len(input_file) = 3
  /\ \E n \in TallyLines : stdout[n].topic = PolicyPositions /\ stdout[n].count = 2
  /\ \E n \in TallyLines : stdout[n].topic = TrumpConflicts /\ stdout[n].count = 1

\* the lines of the return statements of the keyword groups and the fallback
KeywordLines ==
  {96, 100, 104, 108, 112, 116, 120, 124, 128}

\* C14: a label that is a canonical name in lower case, or a canonical name
\* or synonym key with a blank after it, is not matched exactly but resolved
\* by the keyword groups; the lower-case form of seven canonical names gets
\* the same topic, "controversies/personal attacks" gets Personal
\* Background/Family by the keyword "personal".
C14_ExactMatchIsCaseSensitive ==
  Called =>
    /\ \A t \in MAIN_TOPICS :
         label = Lower(t) =>
           /\ result.line \in KeywordLines
           /\ t # ControversiesPersonalAttacks => result.value = t
           /\ t = ControversiesPersonalAttacks =>
                result.value = PersonalBackgroundFamily /\ result.line = 108
    /\ \A t \in MAIN_TOPICS \cup MappingKeys :
         label = t \o <<" ">> => result.line \in KeywordLines

C14_Witness ==
  /\ Called
  /\ label = <<"c","o","n","t","r","o","v","e","r","s","i","e","s","/","p","e","r","s","o","n","a","l"," ","a","t","t","a","c","k","s">>
  /\ label = Lower(ControversiesPersonalAttacks)
  /\ Occurs(<<"p","e","r","s","o","n","a","l">>, label)
  /\ result.value = PersonalBackgroundFamily

\* the file holds every record of the input, each with a canonical topic
FileComplete ==
  /\ output_file = articles
  /\ Len(output_file) = Len(input_file)
  /\ idx > Len(articles)
  /\ \A i \in 1..Len(output_file) :
       "Topic" \in DOMAIN output_file[i] /\ output_file[i].Topic \in MAIN_TOPICS

\* the positions of the lines of the report (every line but the warnings)
ReportLines ==
  {n \in 1..Len(stdout) : stdout[n].kind # "warning"}

\* every warning was printed before the file was written and the report begun
WarningsFirst ==
  \A n \in 1..Len(stdout) :
    stdout[n].kind = "warning" => \A m \in ReportLines : n < m

\* C15 as stated: the file is written only when every record is normalized,
\* and no statistics are computed or printed while the file is not written.
C15_AsStated ==
  /\ output_file # Missing => FileComplete /\ WarningsFirst
  /\ output_file = Missing =>
       /\ DOMAIN topic_changes = {}
       /\ DOMAIN topic_distribution = {}
       /\ ReportLines = {}

\* C15 amended: the file is written only when every record is normalized and
\* every warning printed; nothing is printed of the statistics and the final
\* distribution is not counted while the file is not written (the change
\* counts of topic_changes are kept during the loop, before the write); a
\* run that fails in the report leaves the file complete.
C15_WriteBeforeReport ==
  /\ output_file # Missing => FileComplete /\ WarningsFirst
  /\ output_file = Missing =>
       /\ DOMAIN topic_distribution = {}
       /\ ReportLines = {}
       /\ pc \in {"read", "loop"}
  /\ pc = "raised" => output_file # Missing /\ FileComplete

\* the report failed after a warning was printed and the file written
C15_Witness ==
  /\ pc = "raised"
  /\ output_file # Missing
  /\ FileComplete
  /\ ReportLines # {}
  /\ \E n \in 1..Len(stdout) : stdout[n].kind = "warning"
  /\ DOMAIN topic_distribution = {}

RECURSIVE Fetched(_)
\* the articles of the pages the first n calls of search_news found, in call order
Fetched(n) ==
  IF n = 0 THEN <<>>
  ELSE Fetched(n - 1) \o responses[n].news

\* C16: the loop makes at most 10 requests, at the offsets 0, 50, ..., 450 in
\* this order; it goes on only after a page with articles and stops at the
\* first empty page or ApiException; the script never stops before it has
\* written the file, and the file holds the articles of the pages fetched, in
\* fetch order.
C16_LoopTerminatesAndSaves ==
  /\ Len(requests) <= 10
  /\ Len(responses) = Len(requests)
  /\ \A k \in 1..Len(requests) : requests[k] = 50 * (k - 1)
  /\ \A k \in 1..(Len(responses) - 1) : responses[k].kind = "news"
  /\ wpc = "loop" => \A k \in 1..Len(responses) : responses[k].kind = "news"
  /\ wpc = "loop" => offset = 50 * Len(requests)
  /\ wpc = "done" \/ ENABLED NextWorld
  /\ wpc = "done" =>
       /\ Len(saved_file) = Len(Fetched(Len(responses)))
       /\ \A i \in 1..Len(saved_file) :
            /\ saved_file[i].offset = Fetched(Len(responses))[i][1]
            /\ saved_file[i].position = Fetched(Len(responses))[i][2]
       /\ Len(requests) < 10 => responses[Len(responses)].kind # "news"

\* two pages were fetched, the third request failed, and the file was written
C16_Witness ==
  /\ wpc = "done"
  /\ requests = <<0, 50, 100>>
  /\ responses[3].kind = "ApiException"
  /\ Len(responses[1].news) = 2
  /\ Len(responses[2].news) = 1
  /\ Len(saved_file) = 3
  /\ saved_file[3].offset = 50

====
